---- MODULE Spec2Model ----
(***************************************************************************)
(* Board state machine of flex-chess (common/object.py, common/common.py,  *)
(* common/piecemeal.py): the n-dimensional Tensor, the Board with its jail *)
(* and the piece back-references, the tagged PLACE/REMOVE/CAPTURE          *)
(* mutations and Piece.get_moves with its deep-copied legality trials.     *)
(***************************************************************************)
EXTENDS Integers, Sequences, FiniteSets, TLC

VARIABLES shape, contents, jail, loc, calls, last, ray

vars == <<shape, contents, jail, loc, calls, last, ray>>

(* ---------------------------- bounds ----------------------------------- *)
NumPieces == 3
MaxSeqLen == 2
MaxCalls == 2
\* the tensors of the addressing checks: dimensions and extent of a dimension
MaxDim == 3
MaxExtent == 3
\* the step generators of the rays: the longest list of steps given to
\* iter() or cycle(), and the yields of a ray that are recorded
MaxSteps == 2
MaxYield == 3
\* the points of the arithmetic checks: dimensions, and largest component
MaxPointDim == 2
MaxComponent == 2

(* ------------------------- objects of the heap ------------------------- *)
\* Python's None for a cell, a payload or a value
None == 0
\* the Piece objects the harness constructs
Pieces == 1..NumPieces
\* the Player objects the harness constructs
Players == {"Red", "Blue"}
\* Piece.player, fixed at construction: the pieces alternate between players
Owner(p) == IF p % 2 = 1 THEN "Red" ELSE "Blue"
\* deepcopy gives every piece reachable from the board a fresh twin; the twin
\* of piece p (of whatever copy) is written NumPieces + p
Orig(o) == IF o > NumPieces THEN o - NumPieces ELSE o
deepcopy_piece(o) == IF o = None THEN None ELSE Orig(o) + NumPieces
PlayerOf(o) == Owner(Orig(o))
\* Optional[Point]: None is <<>>, the point pt is <<pt>>
Nothing == << >>
Some(pt) == <<pt>>
\* Piece._board is None, the board under test, or a deep copy made by a trial
NoBoard == "None"
RealBoard == "board"
CopyBoard == "board_copy"

\* an assignment x = e: the one element of {e}, computed once and then named
The(S) == CHOOSE x \in S : TRUE

(* ------------------------------- Point --------------------------------- *)
zero(dimensions) == [i \in 1..dimensions |-> 0]
\* the positions of zip(self, other): as many as the shorter of the two has
zip(self, other) == 1..(IF Len(self) <= Len(other) THEN Len(self) ELSE Len(other))
\* mutant: the sizes are not compared
check_size_unchecked(self, other) == TRUE
check_size(self, other) == Len(self) = Len(other)
\* mutant: the sum has the components of the left operand
add_left(self, other) == [i \in zip(self, other) |-> self[i]]
add(self, other) == [i \in zip(self, other) |-> self[i] + other[i]]
\* mutant: one component that is not larger is enough
le_any(self, other) == \E i \in zip(self, other) : self[i] <= other[i]
le(self, other) == \A i \in zip(self, other) : self[i] <= other[i]
lt(self, other) == \A i \in zip(self, other) : self[i] < other[i]
\* The outcome of a method of Point is a record: err ("ok", or the exception
\* raised) and value (what it returned).
Returned(value) == [err |-> "ok", value |-> value]
Raised(err) == [err |-> err, value |-> << >>]
\* mutant: the sizes are not checked, the sum is as long as the shorter point
point_add_truncating(self, other) == Returned(add(self, other))
\* Point.__add__, __le__ and __lt__ with their size check
point_add(self, other) ==
    IF check_size(self, other) THEN Returned(add(self, other))
    ELSE Raised("ValueError")
point_le(self, other) ==
    IF check_size(self, other) THEN Returned(le(self, other))
    ELSE Raised("ValueError")
point_lt(self, other) ==
    IF check_size(self, other) THEN Returned(lt(self, other))
    ELSE Raised("ValueError")
\* A Point held by an object is a record: x (its components) and plain (the
\* components are integers).
\* mutant: the copy of a Point has the components of the Point
deepcopy_point_componentwise(point) == point
\* deepcopy of a Point: copy rebuilds it as Point.__new__(Point, tuple(point)),
\* and __new__(cls, *x) makes of that a Point with ONE component, the tuple
deepcopy_point(point) == [x |-> <<point.x>>, plain |-> FALSE]

(* ------------------------------- Tensor -------------------------------- *)
\* A Tensor tn is given by shape (a Point object) and dim (len(dimensions) at
\* construction); its _contents are kept with the board state.
RECURSIVE product(_)
product(dimensions) ==
    IF Len(dimensions) = 1 THEN dimensions[1]
    ELSE dimensions[1] * product(Tail(dimensions))
\* Tensor.__init__ without a source: size cells holding the default None
Tensor(dimensions) == [i \in 1..product(dimensions) |-> None]
\* The membership test of _index, Point.zero(self.dim) <= item < self.shape:
\* "ok" if item is in the tensor, else the exception raised. Each comparison
\* checks the sizes first; the chain stops at the first false comparison;
\* comparing an integer with a tuple component is a TypeError.
access(tn, item) ==
    IF ~check_size(zero(tn.dim), item) THEN "ValueError"
    ELSE IF ~le(zero(tn.dim), item) THEN "IndexError"
    ELSE IF ~check_size(item, tn.shape.x) THEN "ValueError"
    ELSE IF ~tn.shape.plain THEN "TypeError"
    ELSE IF lt(item, tn.shape.x) THEN "ok"
    ELSE "IndexError"
\* the reduce of _index over the reversed (coordinate, shape) pairs;
\* x is the pair (index, stride) accumulated so far
RECURSIVE index_reduce_fixed_stride(_, _, _, _)
\* mutant: the stride is not multiplied by the extent of the dimension
index_reduce_fixed_stride(coordinates, shp, i, x) ==
    IF i = 0 THEN x
    ELSE index_reduce_fixed_stride(coordinates, shp, i - 1,
                                   <<x[2] * coordinates[i] + x[1], x[2]>>)
RECURSIVE index_reduce(_, _, _, _)
index_reduce(coordinates, shp, i, x) ==
    IF i = 0 THEN x
    ELSE index_reduce(coordinates, shp, i - 1,
                      <<x[2] * coordinates[i] + x[1], x[2] * shp[i]>>)
index(shp, coordinates) ==
    LET n == Cardinality(zip(coordinates, shp))
    IN  index_reduce(coordinates, shp, n - 1, <<coordinates[n], shp[n]>>)[1]
\* Tensor.__getitem__ for coordinates that passed the membership test
getitem(tn, cells, item) == cells[index(tn.shape.x, item) + 1]
\* Tensor.__iter__: the elements of _contents in the order of the list
iter(cells) == [k \in 1..Len(cells) |-> cells[k]]
\* Tensor(dimensions, source=count()): the cell at flat index k holds k
TensorCount(dimensions) == [i \in 1..product(dimensions) |-> i - 1]

(* ------------------------------- Board --------------------------------- *)
\* A board state s is a record: contents (the Tensor's flat list), jail,
\* loc (the back-references of the harness' pieces), err (the exception that
\* ended the call, or "ok"), idx (the mutation of a sequence that raised) and
\* touched (the harness' pieces whose back-reference the call has written).
\* tag says which Board object self is: the board under test or a deep copy.
PLACE == "PLACE"
REMOVE == "REMOVE"
CAPTURE == "CAPTURE"
Operation == {PLACE, REMOVE, CAPTURE}
\* mutant: CAPTURE left out of the capturing operations
CAPTURE_OPS_place_only == {PLACE}
CAPTURE_OPS == {PLACE, CAPTURE}
REMOVE_OPS == {REMOVE, CAPTURE}

\* mutant: the back-reference of the piece is not written
update_piece_location_skipped(s, tag, piece, place) == s
\* Piece.place, reached through Board._update_piece_location; the
\* back-references of the twins made by deepcopy are not observed
update_piece_location(s, tag, piece, place) ==
    IF piece \in Pieces
    THEN [s EXCEPT !.loc[piece] = [board |-> tag, place |-> place],
                   !.touched = @ \cup {piece}]
    ELSE s

\* the nearest point of the tensor
clamp(shp, key) ==
    [i \in zip(key, shp) |-> IF key[i] < 0 THEN 0
                             ELSE IF key[i] >= shp[i] THEN shp[i] - 1
                             ELSE key[i]]
\* mutant: the cell the placed piece came from is vacated
setitem_vacating(tn, s, tag, key, value) ==
    IF access(tn, key) # "ok" THEN [s EXCEPT !.err = access(tn, key)]
    ELSE LET piece == getitem(tn, s.contents, key)
             s1 == IF piece # None
                   THEN update_piece_location(s, tag, piece, Nothing)
                   ELSE s
             s2 == [s1 EXCEPT !.contents =
                        [k \in DOMAIN @ |->
                            IF k = index(tn.shape.x, key) + 1 THEN value
                            ELSE IF value # None /\ @[k] = value THEN None
                            ELSE @[k]]]
         IN  IF value # None
             THEN update_piece_location(s2, tag, value, Some(key))
             ELSE s2
\* mutant: a key off the board is clamped to the nearest cell
setitem_clamped(tn, s, tag, key, value) ==
    IF access(tn, key) \notin {"ok", "IndexError"} \/ ~tn.shape.plain
    THEN [s EXCEPT !.err = access(tn, key)]
    ELSE LET piece == getitem(tn, s.contents, clamp(tn.shape.x, key))
             s1 == IF piece # None
                   THEN update_piece_location(s, tag, piece, Nothing)
                   ELSE s
             s2 == [s1 EXCEPT !.contents[index(tn.shape.x, clamp(tn.shape.x, key)) + 1] =
                                  value]
         IN  IF value # None
             THEN update_piece_location(s2, tag, value, Some(clamp(tn.shape.x, key)))
             ELSE s2
\* mutant: the back-reference of the piece that was in the cell is kept
setitem_keeping_occupant(tn, s, tag, key, value) ==
    IF access(tn, key) # "ok" THEN [s EXCEPT !.err = access(tn, key)]
    ELSE LET s2 == [s EXCEPT !.contents[index(tn.shape.x, key) + 1] = value]
         IN  IF value # None
             THEN update_piece_location(s2, tag, value, Some(key))
             ELSE s2
\* mutant: a piece that is placed on the grid is taken out of the jail sets
setitem_releasing(tn, s, tag, key, value) ==
    IF access(tn, key) # "ok" THEN [s EXCEPT !.err = access(tn, key)]
    ELSE LET piece == getitem(tn, s.contents, key)
             s1 == IF piece # None
                   THEN update_piece_location(s, tag, piece, Nothing)
                   ELSE s
             s2 == [s1 EXCEPT !.contents[index(tn.shape.x, key) + 1] = value,
                              !.jail = [player \in DOMAIN @ |-> @[player] \ {value}]]
         IN  IF value # None
             THEN update_piece_location(s2, tag, value, Some(key))
             ELSE s2
setitem(tn, s, tag, key, value) ==
    IF access(tn, key) # "ok" THEN [s EXCEPT !.err = access(tn, key)]
    ELSE LET piece == getitem(tn, s.contents, key)
             s1 == IF piece # None
                   THEN update_piece_location(s, tag, piece, Nothing)
                   ELSE s
             s2 == [s1 EXCEPT !.contents[index(tn.shape.x, key) + 1] = value]
         IN  IF value # None
             THEN update_piece_location(s2, tag, value, Some(key))
             ELSE s2

\* mutant: the cell is cleared, the back-reference of its piece is kept
delitem_cell_only(tn, s, tag, key) ==
    IF access(tn, key) # "ok" THEN [s EXCEPT !.err = access(tn, key)]
    ELSE [s EXCEPT !.contents[index(tn.shape.x, key) + 1] = None]
delitem(tn, s, tag, key) ==
    IF access(tn, key) # "ok" THEN [s EXCEPT !.err = access(tn, key)]
    ELSE LET piece == getitem(tn, s.contents, key)
             s1 == IF piece # None
                   THEN update_piece_location(s, tag, piece, Nothing)
                   ELSE s
         IN  [s1 EXCEPT !.contents[index(tn.shape.x, key) + 1] = None]

\* mutant: the occupant goes to the jail of its own player
jail_key_of_occupant(mutation, occupant) == PlayerOf(occupant)
\* the key of self.jail[mutation.payload.player]
jail_key(mutation, occupant) == PlayerOf(mutation.payload)

\* mutant: the occupant of the point is not added to a jail
apply_mutation_without_jail(tn, s, tag, mutation) ==
    IF access(tn, mutation.point) # "ok"
    THEN [s EXCEPT !.err = access(tn, mutation.point)]
    ELSE The({IF mutation.op = PLACE
              THEN setitem(tn, s2, tag, mutation.point, mutation.payload)
              ELSE s2 :
              s2 \in {IF mutation.op \in REMOVE_OPS
                      THEN delitem(tn, s, tag, mutation.point)
                      ELSE s}})
\* mutant: the player of the payload is read before the point is looked at
apply_mutation_payload_first(tn, s, tag, mutation) ==
    IF access(tn, mutation.point) # "ok"
    THEN [s EXCEPT !.err = access(tn, mutation.point)]
    ELSE LET occupant == getitem(tn, s.contents, mutation.point)
             jailed == occupant # None /\ mutation.op \in CAPTURE_OPS
         IN  IF mutation.op \in CAPTURE_OPS /\ mutation.payload = None
             THEN [s EXCEPT !.err = "AttributeError"]
             ELSE LET s1 == IF jailed
                            THEN [s EXCEPT !.jail[jail_key(mutation, occupant)] =
                                               @ \cup {occupant}]
                            ELSE s
                  IN  The({IF mutation.op = PLACE
                           THEN setitem(tn, s2, tag, mutation.point, mutation.payload)
                           ELSE s2 :
                           s2 \in {IF mutation.op \in REMOVE_OPS
                                   THEN delitem(tn, s1, tag, mutation.point)
                                   ELSE s1}})
\* one iteration of the loop of Board.apply
apply_mutation(tn, s, tag, mutation) ==
    IF access(tn, mutation.point) # "ok"
    THEN [s EXCEPT !.err = access(tn, mutation.point)]
    ELSE LET occupant == getitem(tn, s.contents, mutation.point)
             jailed == occupant # None /\ mutation.op \in CAPTURE_OPS
         IN  IF jailed /\ mutation.payload = None
             THEN [s EXCEPT !.err = "AttributeError"]
             ELSE LET s1 == IF jailed
                            THEN [s EXCEPT !.jail[jail_key(mutation, occupant)] =
                                               @ \cup {occupant}]
                            ELSE s
                  IN  The({IF mutation.op = PLACE
                           THEN setitem(tn, s2, tag, mutation.point, mutation.payload)
                           ELSE s2 :
                           s2 \in {IF mutation.op \in REMOVE_OPS
                                   THEN delitem(tn, s1, tag, mutation.point)
                                   ELSE s1}})

\* the loop of Board.apply: the mutations in order, up to the first one that
\* raises
RECURSIVE apply_from(_, _, _, _, _)
apply_from(tn, s, tag, sequence, i) ==
    IF i > Len(sequence) THEN s
    ELSE The({IF r.err # "ok" THEN [r EXCEPT !.idx = i]
              ELSE apply_from(tn, r, tag, sequence, i + 1) :
              r \in {apply_mutation(tn, s, tag, sequence[i])}})
\* mutant: a sequence that raises is rolled back
apply_atomic(tn, s, tag, sequence) ==
    The({IF r.err # "ok" THEN [s EXCEPT !.err = r.err, !.idx = r.idx] ELSE r :
         r \in {apply_from(tn, s, tag, sequence, 1)}})
apply(tn, s, tag, sequence) == apply_from(tn, s, tag, sequence, 1)

(* ------------------------ Piece.get_moves ------------------------------ *)
\* A Board object b is a record: tag (which object it is), tensor (shape and
\* dim of its Tensor), contents, jail.
\* mutant: the trial works on the board itself
deepcopy_shared(b) == b
\* deepcopy(self._board): a new Board; its cells and jail hold the twins, its
\* shape is the copy of the Point, dim is an integer
deepcopy(b) ==
    [tag |-> CopyBoard,
     tensor |-> [shape |-> deepcopy_point(b.tensor.shape), dim |-> b.tensor.dim],
     contents |-> [i \in DOMAIN b.contents |-> deepcopy_piece(b.contents[i])],
     jail |-> [player \in Players |-> {deepcopy_piece(o) : o \in b.jail[player]}]]

\* mutant: the piece is placed at destination and not removed from origin
direct_move_without_remove(b, origin, destination) ==
    <<[op |-> PLACE, point |-> destination,
       payload |-> getitem(b.tensor, b.contents, origin)]>>
\* piecemeal.direct_move(board, origin, destination), origin on the board
direct_move(b, origin, destination) ==
    <<[op |-> REMOVE, point |-> origin, payload |-> None],
      [op |-> PLACE, point |-> destination,
       payload |-> getitem(b.tensor, b.contents, origin)]>>

\* mutant: the except clause catches every exception
caught_any(verdict) == verdict # "ok"
\* except IllegalBoardState: pass
caught(verdict) == verdict = "IllegalBoardState"

\* m is the state of a get_moves call: board (the object self._board refers
\* to), place (self._place), real (contents and jail of the board under
\* test), loc, moves, trace (every candidate produced: the generator gi and
\* the position k it came from, and the outcome of its trial) and err.
\* The try block from the point where board_copy.apply(sequence) has ended
\* with r. The game's board raises IllegalBoardState from apply when the
\* sequence has been applied and the candidate is illegal in the game.
applied(self, m, gi, k, sequence, is_illegal, board_copy, r) ==
    LET after == [board_copy EXCEPT !.contents = r.contents, !.jail = r.jail]
        verdict == IF r.err # "ok" THEN r.err
                   ELSE IF is_illegal THEN "IllegalBoardState"
                   ELSE "ok"
    IN  [m EXCEPT !.loc = r.loc,
                  !.board = IF self \in r.touched THEN after ELSE @,
                  !.place = IF self \in r.touched THEN r.loc[self].place ELSE @,
                  !.real = IF board_copy.tag = RealBoard
                           THEN [contents |-> r.contents, jail |-> r.jail]
                           ELSE @,
                  !.trace = Append(@, [generator |-> gi, candidate |-> k,
                                       sequence |-> sequence, verdict |-> verdict]),
                  !.moves = IF verdict = "ok" THEN Append(@, sequence) ELSE @,
                  !.err = IF verdict = "ok" \/ caught(verdict) THEN "ok"
                          ELSE verdict]
\* the body of the inner loop of get_moves for one candidate sequence
trial(self, m, gi, k, sequence, is_illegal) ==
    The({The({applied(self, m, gi, k, sequence, is_illegal, board_copy, r) :
              r \in {apply(board_copy.tensor,
                           [contents |-> board_copy.contents,
                            jail |-> board_copy.jail, loc |-> m.loc,
                            err |-> "ok", idx |-> 0, touched |-> {}],
                           board_copy.tag, sequence)}}) :
         board_copy \in {deepcopy(m.board)}})

\* for sequence in generator(self._board, self._place): a generator g is the
\* list of what it does when asked for its next candidate: it yields
\* direct_move(board, point, point + step), or yields a sequence it has
\* built, or raises IllegalBoardState. b and place are the arguments the
\* generator was called with.
RECURSIVE run_generator(_, _, _, _, _, _, _)
run_generator(self, m, gi, g, b, place, k) ==
    IF k > Len(g) \/ m.err # "ok" THEN m
    ELSE IF g[k].kind = "raise" THEN [m EXCEPT !.err = "IllegalBoardState"]
    ELSE IF g[k].kind = "sequence"
    THEN The({run_generator(self, n, gi, g, b, place, k + 1) :
              n \in {trial(self, m, gi, k, g[k].sequence, g[k].illegal)}})
    ELSE IF place = Nothing THEN [m EXCEPT !.err = "TypeError"]
    ELSE IF access(b.tensor, place[1]) # "ok"
    THEN [m EXCEPT !.err = access(b.tensor, place[1])]
    ELSE The({run_generator(self, n, gi, g, b, place, k + 1) :
              n \in {trial(self, m, gi, k,
                            direct_move(b, place[1], add(place[1], g[k].step[1])),
                            g[k].illegal)}})

\* for generator in self.move_generators
RECURSIVE get_moves_from(_, _, _, _)
get_moves_from(self, m, move_generators, gi) ==
    IF gi > Len(move_generators) \/ m.err # "ok" THEN m
    ELSE The({get_moves_from(self, n, move_generators, gi + 1) :
              n \in {run_generator(self, m, gi, move_generators[gi],
                                    m.board, m.place, 1)}})

\* self.get_moves() with self._board the board under test
get_moves(self, tn, real, locs, move_generators) ==
    The({get_moves_from(self, m, move_generators, 1) :
         m \in {[board |-> [tag |-> RealBoard, tensor |-> tn,
                            contents |-> real.contents, jail |-> real.jail],
                 place |-> locs[self].place, real |-> real, loc |-> locs,
                 moves |-> << >>, trace |-> << >>, err |-> "ok"]}})

(* ------------------------- inputs of the harness ----------------------- *)
\* the shape of the board under test
Shape == <<1, 2>>
RECURSIVE PointsBelow(_)
PointsBelow(shp) ==
    IF Len(shp) = 0 THEN {<< >>}
    ELSE {<<x>> \o rest : x \in 0..(shp[1] - 1), rest \in PointsBelow(Tail(shp))}
OnBoard == PointsBelow(Shape)
AllNegative == [i \in 1..Len(Shape) |-> -1]
\* off the board as in test_oob: all components negative, and the shape itself
OffBoard == {AllNegative, Shape}
\* off the board in one dimension, as in TestTensor.test_oob: one component
\* is -1 or the extent of its dimension, the others are 0
OneHotOffBoard ==
    {[i \in 1..Len(Shape) |-> IF i = place THEN value ELSE 0] :
         place \in 1..Len(Shape), value \in {-1} \cup {Shape[d] : d \in 1..Len(Shape)}}
        \ OnBoard
\* points of another dimension than the board's
WrongDimension == {zero(Len(Shape) - 1), zero(Len(Shape) + 1)}
TestPoints == OnBoard \cup OffBoard \cup OneHotOffBoard \cup WrongDimension
\* the points of the mutations: off the board as in test_invalid_mutation
MutationPoints == OnBoard \cup {AllNegative}
Mutation == [op : Operation, point : MutationPoints, payload : Pieces \cup {None}]
Sequences == UNION {[1..n -> Mutation] : n \in 1..MaxSeqLen}
\* What a move generator does when asked for a candidate: a direct move one
\* cell forth in the last dimension; the empty sequence (a pass), legal or
\* illegal in the game; a sequence with a point off the board; a veto.
StepForth == [i \in 1..Len(Shape) |-> IF i = Len(Shape) THEN 1 ELSE 0]
Candidates ==
    {[kind |-> "direct_move", step |-> Some(StepForth), sequence |-> << >>,
      illegal |-> FALSE],
     [kind |-> "sequence", step |-> Nothing, sequence |-> << >>, illegal |-> FALSE],
     [kind |-> "sequence", step |-> Nothing, sequence |-> << >>, illegal |-> TRUE],
     [kind |-> "sequence", step |-> Nothing,
      sequence |-> <<[op |-> REMOVE, point |-> AllNegative, payload |-> None]>>,
      illegal |-> FALSE],
     [kind |-> "raise", step |-> Nothing, sequence |-> << >>, illegal |-> FALSE]}
Generators == {<<a>> : a \in Candidates} \cup {<<a, b>> : a \in Candidates, b \in Candidates}
GeneratorLists == {<<g>> : g \in Generators}
                      \cup {<<g, h>> : g \in Generators, h \in Generators}

(* ------------------------------- mutate -------------------------------- *)
\* Board.mutate(Mutation(source, target)), the single source/target mutation
\* that test_object.py calls, after the design of the single-mutation apply.
\* The source of a mutation is a record: point (Some(coordinate) when the
\* source is a coordinate) and piece (the piece given, None when absent).
FromPoint(point) == [point |-> Some(point), piece |-> None]
FromPiece(piece) == [point |-> Nothing, piece |-> piece]
\* place_internal(piece_or_none, coord_or_none): sets the grid cell if a
\* coordinate is given, and the back-reference of the piece, to (this board,
\* coord), if a piece is given
place_internal(tn, s, tag, piece, coord) ==
    LET s1 == IF coord # Nothing
              THEN [s EXCEPT !.contents[index(tn.shape.x, coord[1]) + 1] = piece]
              ELSE s
    IN  IF piece # None THEN update_piece_location(s1, tag, piece, coord) ELSE s1
\* mutant: the occupant of the target is returned also when it is the
\* incoming piece
displaced_always(current, incoming) == current
\* step 4: current is the displaced piece unless it is the incoming piece
displaced(current, incoming) == IF current = incoming THEN None ELSE current
\* mutant: the cell of a source coordinate is not cleared
resolve_without_clearing(tn, s, tag, source) ==
    IF source.point = Nothing THEN [s |-> s, incoming |-> source.piece]
    ELSE IF access(tn, source.point[1]) # "ok"
    THEN [s |-> [s EXCEPT !.err = access(tn, source.point[1])], incoming |-> None]
    ELSE [s |-> s, incoming |-> getitem(tn, s.contents, source.point[1])]
\* step 2: the incoming piece, and the board once the cell of a source
\* coordinate has been cleared
resolve(tn, s, tag, source) ==
    IF source.point = Nothing THEN [s |-> s, incoming |-> source.piece]
    ELSE IF access(tn, source.point[1]) # "ok"
    THEN [s |-> [s EXCEPT !.err = access(tn, source.point[1])], incoming |-> None]
    ELSE [s |-> place_internal(tn, s, tag, None, source.point),
          incoming |-> getitem(tn, s.contents, source.point[1])]
\* steps 1 to 4; the outcome is the board state s and the piece returned
mutate(tn, s, tag, mutation) ==
    IF access(tn, mutation.target) # "ok"
    THEN [s |-> [s EXCEPT !.err = access(tn, mutation.target)], value |-> None]
    ELSE LET current == getitem(tn, s.contents, mutation.target)
             s1 == IF current # None
                   THEN place_internal(tn, s, tag, current, Nothing)
                   ELSE s
             r == resolve(tn, s1, tag, mutation.source)
         IN  IF r.s.err # "ok" THEN [s |-> r.s, value |-> None]
             ELSE [s |-> place_internal(tn, r.s, tag, r.incoming,
                                        Some(mutation.target)),
                   value |-> displaced(current, r.incoming)]

(* --------------------------- get_repeated_points ----------------------- *)
\* A step generator g is a record: list (the steps it was made of), pos (the
\* place in the list of the step it gives next, from 0) and restart (the
\* place it goes on from after the last step of the list; the length of the
\* list if it ends there)
repeat(object) == [list |-> <<object>>, restart |-> 0, pos |-> 0]
cycle(iterable) == [list |-> iterable, restart |-> 0, pos |-> 0]
iterator(iterable) == [list |-> iterable, restart |-> Len(iterable), pos |-> 0]
\* chain(iterable, repeat(object))
chain_repeat(iterable, object) ==
    [list |-> Append(iterable, object), restart |-> Len(iterable), pos |-> 0]
\* next(g) raises StopIteration
exhausted(g) == g.pos >= Len(g.list)
\* the value of next(g), and g after it
next_value(g) == g.list[g.pos + 1]
advanced(g) ==
    [g EXCEPT !.pos = IF g.pos + 1 = Len(g.list) THEN g.restart ELSE g.pos + 1]

\* The generator object of a call of get_repeated_points is a record r: pc
\* (where it is suspended), its locals point, piece, capture and
\* step_generator, and what its consumer has seen of it: origin (the point
\* of the call), yielded (the first MaxYield coordinates yielded), more
\* (it yielded further ones), last_yield, err, and odd (the consumer has
\* called next() an odd number of times).
NoRay ==
    [pc |-> "none", origin |-> Nothing, point |-> Nothing, piece |-> None,
     capture |-> FALSE, step_generator |-> iterator(<< >>), yielded |-> << >>,
     more |-> FALSE, last_yield |-> Nothing, err |-> "ok", odd |-> FALSE]
\* get_repeated_points(board, point, step_generator, capture): the generator
\* object, of which no statement has run
created(point, step_generator, capture) ==
    [NoRay EXCEPT !.pc = "created", !.origin = Some(point), !.point = point,
                  !.capture = capture, !.step_generator = step_generator]
\* yield point
yield(r, pc) ==
    [r EXCEPT !.pc = pc,
              !.yielded = IF Len(@) < MaxYield THEN Append(@, r.point) ELSE @,
              !.more = Len(r.yielded) >= MaxYield,
              !.last_yield = Some(r.point)]
\* mutant: the owners are not compared
capturable_any_owner(capture, piece, occupant) == capture
\* capture and piece.player != board[point].player
capturable(capture, piece, occupant) ==
    capture /\ PlayerOf(piece) # PlayerOf(occupant)
\* mutant: the ray goes on over the pieces of the player of its own piece
while_point_in_board_over_allies(tn, cells, r) ==
    IF access(tn, r.point) \notin {"ok", "IndexError"}
    THEN [r EXCEPT !.pc = "raised", !.err = access(tn, r.point)]
    ELSE IF access(tn, r.point) = "IndexError" THEN [r EXCEPT !.pc = "done"]
    ELSE IF getitem(tn, cells, r.point) = None THEN yield(r, "yielded")
    ELSE IF r.capture /\ r.piece = None
    THEN [r EXCEPT !.pc = "raised", !.err = "AttributeError"]
    ELSE IF capturable(r.capture, r.piece, getitem(tn, cells, r.point))
    THEN yield(r, "captured")
    ELSE IF r.piece # None /\ PlayerOf(r.piece) = PlayerOf(getitem(tn, cells, r.point))
    THEN yield(r, "yielded")
    ELSE [r EXCEPT !.pc = "done"]
\* the while loop from its test to the next yield or return
while_point_in_board(tn, cells, r) ==
    IF access(tn, r.point) \notin {"ok", "IndexError"}
    THEN [r EXCEPT !.pc = "raised", !.err = access(tn, r.point)]
    ELSE IF access(tn, r.point) = "IndexError" THEN [r EXCEPT !.pc = "done"]
    ELSE IF getitem(tn, cells, r.point) = None THEN yield(r, "yielded")
    ELSE IF r.capture /\ r.piece = None
    THEN [r EXCEPT !.pc = "raised", !.err = "AttributeError"]
    ELSE IF capturable(r.capture, r.piece, getitem(tn, cells, r.point))
    THEN yield(r, "captured")
    ELSE [r EXCEPT !.pc = "done"]
\* point += next(step_generator) in its try, and the loop after it
step(tn, cells, r) ==
    IF exhausted(r.step_generator) THEN [r EXCEPT !.pc = "done"]
    ELSE IF ~check_size(r.point, next_value(r.step_generator))
    THEN [r EXCEPT !.pc = "raised", !.err = "ValueError",
                   !.step_generator = advanced(@)]
    ELSE while_point_in_board(tn, cells,
             [r EXCEPT !.point = add(@, next_value(r.step_generator)),
                       !.step_generator = advanced(@)])
\* mutant: the origin itself is the first point of the ray
first_next_from_origin(tn, cells, r) ==
    IF access(tn, r.point) # "ok"
    THEN [r EXCEPT !.pc = "raised", !.err = access(tn, r.point)]
    ELSE while_point_in_board(tn, cells,
                              [r EXCEPT !.piece = getitem(tn, cells, r.point)])
\* the first next() of the generator object: from piece = board[point]
first_next(tn, cells, r) ==
    IF access(tn, r.point) # "ok"
    THEN [r EXCEPT !.pc = "raised", !.err = access(tn, r.point)]
    ELSE step(tn, cells, [r EXCEPT !.piece = getitem(tn, cells, r.point)])
\* next() of the generator object: it runs to its next yield, return or raise
resume(tn, cells, r) ==
    IF r.pc = "created" THEN first_next(tn, cells, [r EXCEPT !.odd = ~@])
    ELSE IF r.pc = "yielded" THEN step(tn, cells, [r EXCEPT !.odd = ~@])
    ELSE [r EXCEPT !.pc = "done", !.odd = ~@]

(* --------------------------- the call record --------------------------- *)
\* last is the record the caller holds of the call that just returned or
\* raised, with the board and the back-references as they were before the
\* call; NoCall once the caller has dropped it. calls counts the calls.
NoCall ==
    [op |-> "none", err |-> "ok", idx |-> 0, key |-> Nothing, value |-> None,
     destination |-> Nothing,
     sequence |-> << >>, piece |-> None, move_generators |-> << >>,
     moves |-> << >>, trace |-> << >>,
     before |-> [contents |-> << >>, jail |-> [player \in Players |-> {}],
                 loc |-> [p \in Pieces |-> [board |-> NoBoard, place |-> Nothing]]]]
Before == [contents |-> contents, jail |-> jail, loc |-> loc]
\* the Tensor of the board under test
BoardTensor == [shape |-> [x |-> shape, plain |-> TRUE], dim |-> Len(shape)]
State ==
    [contents |-> contents, jail |-> jail, loc |-> loc, err |-> "ok", idx |-> 0,
     touched |-> {}]

Init ==
    /\ shape = Shape
    /\ contents = Tensor(Shape)
    /\ jail = [player \in Players |-> {}]
    /\ loc = [p \in Pieces |-> [board |-> NoBoard, place |-> Nothing]]
    /\ calls = 0
    /\ last = NoCall
    /\ ray = NoRay

\* the boards a test can have made of the harness' pieces on the board of
\* shape Shape: each piece is on one cell or on none
MutateBoards ==
    {cells \in [1..product(Shape) -> {None} \cup Pieces] :
        \A i, j \in DOMAIN cells : cells[i] # None /\ cells[i] = cells[j] => i = j}
\* the mutations of test_object.py: the source is a point, a piece or None
SourceTargetMutations ==
    [source : {FromPoint(point) : point \in MutationPoints}
                  \cup {FromPiece(piece) : piece \in Pieces \cup {None}},
     target : MutationPoints]
InitMutate ==
    /\ shape = Shape
    /\ contents \in MutateBoards
    /\ jail = [player \in Players |-> {}]
    /\ loc = [p \in Pieces |->
                 IF \E k \in DOMAIN contents : contents[k] = p
                 THEN [board |-> RealBoard,
                       place |-> Some(CHOOSE c \in OnBoard :
                                         getitem(BoardTensor, contents, c) = p)]
                 ELSE [board |-> NoBoard, place |-> Nothing]]
    /\ calls = 0
    /\ last = NoCall
    /\ ray = NoRay

\* the board of TestBoards, smaller: BOARD_DIMS
RayShape == <<1, 4>>
\* the boards the setup of a test can make of the harness' pieces: each piece
\* is on one cell or on none
RayBoards ==
    {cells \in [1..product(RayShape) -> {None} \cup Pieces] :
        \A i, j \in DOMAIN cells : cells[i] # None /\ cells[i] = cells[j] => i = j}
\* the point of the cell at flat index k
PointAt(shp, k) == CHOOSE c \in PointsBelow(shp) : index(shp, c) = k
\* the steps: one cell, or none, along each dimension
StepVectors == UNION {[1..n -> -1..1] : n \in {Len(RayShape)}}
StepLists == UNION {[1..n -> StepVectors] : n \in 0..MaxSteps}
\* repeat(step) as in test_repeated_points, cycle() and iter() of a list, and
\* a list followed by the repetition of a step
StepGenerators ==
    {repeat(s) : s \in StepVectors} \cup {cycle(l) : l \in StepLists}
        \cup {iterator(l) : l \in StepLists}
        \cup {chain_repeat(l, s) : l \in {l \in StepLists : Len(l) < MaxSteps},
                                   s \in StepVectors}
\* the origins of the rays: the points of the board, and one off the board
RayOrigins == PointsBelow(RayShape) \cup {RayShape}
InitRay ==
    /\ shape = RayShape
    /\ contents \in RayBoards
    /\ jail = [player \in Players |-> {}]
    /\ loc = [p \in Pieces |->
                 IF \E k \in DOMAIN contents : contents[k] = p
                 THEN [board |-> RealBoard,
                       place |-> Some(PointAt(shape,
                                     (CHOOSE k \in DOMAIN contents : contents[k] = p) - 1))]
                 ELSE [board |-> NoBoard, place |-> Nothing]]
    /\ calls = 0
    /\ last = NoCall
    /\ ray = NoRay
\* the board of test_repeated_points when it makes its first ray: one piece,
\* in the corner
InitRayLive ==
    /\ InitRay
    /\ \A k \in DOMAIN contents : contents[k] # None <=> k = 1

\* the points of TestPoints: every dimension from 0, as in test_length
TestPointValues ==
    UNION {[1..n -> 0..MaxComponent] : n \in 0..MaxPointDim}

\* the tensors of TestTensor: every shape of up to MaxDim dimensions with
\* extents up to MaxExtent, filled from count()
TensorShapes == UNION {[1..n -> 1..MaxExtent] : n \in 1..MaxDim}
InitTensor ==
    /\ shape \in TensorShapes
    /\ contents = TensorCount(shape)
    /\ jail = [player \in Players |-> {}]
    /\ loc = [p \in Pieces |-> [board |-> NoBoard, place |-> Nothing]]
    /\ calls = 0
    /\ last = NoCall
    /\ ray = NoRay

\* the harness is idle: the record of the last call has been dropped
Idle == last = NoCall

\* the harness makes its next call once it has dropped the record of the last
Call ==
    /\ Idle
    /\ calls < MaxCalls
    /\ calls' = calls + 1

\* board.mutate(mutation), as in mutate_and_check
Mutate(mutation) ==
    /\ Call
    /\ \E r \in {mutate(BoardTensor, State, RealBoard, mutation)} :
           /\ contents' = r.s.contents
           /\ loc' = r.s.loc
           /\ last' = [NoCall EXCEPT !.op = "mutate", !.err = r.s.err,
                                     !.key = mutation.source.point,
                                     !.piece = mutation.source.piece,
                                     !.destination = Some(mutation.target),
                                     !.value = r.value,
                                     !.before = Before]
    /\ UNCHANGED <<ray, shape, jail>>

\* three points compared and added pairwise, as test_lt_le and test_add do:
\* trace[i][j] holds points[i] + points[j], points[i] <= points[j] and
\* points[i] < points[j]
PointCompare(points) ==
    /\ Call
    /\ last' = [NoCall EXCEPT
                   !.op = "point_compare",
                   !.sequence = points,
                   !.trace = [i \in 1..3 |-> [j \in 1..3 |->
                                 [add |-> point_add(points[i], points[j]),
                                  le |-> point_le(points[i], points[j]),
                                  lt |-> point_lt(points[i], points[j])]]],
                   !.before = Before]
    /\ UNCHANGED <<ray, shape, contents, jail, loc>>

\* Point.zero(dimensions), as in test_zeros
PointZero(dimensions) ==
    /\ Call
    /\ last' = [NoCall EXCEPT !.op = "point_zero", !.idx = dimensions,
                              !.sequence = zero(dimensions), !.before = Before]
    /\ UNCHANGED <<ray, shape, contents, jail, loc>>

\* tensor[item], as in test_iteration
TensorGetItem(item) ==
    /\ Call
    /\ last' = [NoCall EXCEPT !.op = "tensor_getitem",
                              !.err = access(BoardTensor, item),
                              !.key = Some(item),
                              !.value = IF access(BoardTensor, item) = "ok"
                                        THEN getitem(BoardTensor, contents, item)
                                        ELSE None,
                              !.before = Before]
    /\ UNCHANGED <<ray, shape, contents, jail, loc>>

\* list(tensor), as in test_iteration
TensorIter ==
    /\ Call
    /\ last' = [NoCall EXCEPT !.op = "tensor_iter", !.sequence = iter(contents),
                              !.before = Before]
    /\ UNCHANGED <<ray, shape, contents, jail, loc>>

\* get_repeated_points(board, point, step_generator, capture), given to
\* check_iterators
RayCreate(point, step_generator, capture) ==
    /\ ray.pc = "none"
    /\ ray' = created(point, step_generator, capture)
    /\ UNCHANGED <<shape, contents, jail, loc, calls, last>>

\* one turn of the loop of check_iterators: next() of the generator object
RayNext ==
    /\ ray.pc \in {"created", "yielded", "captured"}
    /\ \E r \in {resume(BoardTensor, contents, ray)} : ray' = r
    /\ UNCHANGED <<shape, contents, jail, loc, calls, last>>

\* check_iterators is over: the generator returned, or raised through it
RayDrop ==
    /\ ray.pc \in {"done", "raised"}
    /\ ray' = NoRay
    /\ UNCHANGED <<shape, contents, jail, loc, calls, last>>

\* board[key]
GetItem(key) ==
    /\ Call
    /\ last' = [NoCall EXCEPT !.op = "getitem", !.err = access(BoardTensor, key),
                              !.key = Some(key),
                              !.value = IF access(BoardTensor, key) = "ok"
                                        THEN getitem(BoardTensor, contents, key)
                                        ELSE None,
                              !.before = Before]
    /\ UNCHANGED <<ray, shape, contents, jail, loc>>

\* board[key] = value
SetItem(key, value) ==
    /\ Call
    /\ \E s \in {setitem(BoardTensor, State, RealBoard, key, value)} :
           /\ contents' = s.contents
           /\ loc' = s.loc
           /\ last' = [NoCall EXCEPT !.op = "setitem", !.err = s.err,
                                     !.key = Some(key), !.value = value,
                                     !.before = Before]
    /\ UNCHANGED <<ray, shape, jail>>

\* del board[key]
DelItem(key) ==
    /\ Call
    /\ \E s \in {delitem(BoardTensor, State, RealBoard, key)} :
           /\ contents' = s.contents
           /\ loc' = s.loc
           /\ last' = [NoCall EXCEPT !.op = "delitem", !.err = s.err,
                                     !.key = Some(key), !.before = Before]
    /\ UNCHANGED <<ray, shape, jail>>

\* board.apply(sequence)
Apply(sequence) ==
    /\ Call
    /\ \E s \in {apply(BoardTensor, State, RealBoard, sequence)} :
           /\ contents' = s.contents
           /\ jail' = s.jail
           /\ loc' = s.loc
           /\ last' = [NoCall EXCEPT !.op = "apply", !.err = s.err,
                                     !.idx = s.idx, !.sequence = sequence,
                                     !.before = Before]
    /\ UNCHANGED <<ray, shape>>

\* board.apply(direct_move(board, origin, destination)), as in
\* test_direct_move; direct_move reads board[origin] first
Move(origin, destination) ==
    /\ Call
    /\ \E s \in {IF access(BoardTensor, origin) # "ok"
                  THEN [State EXCEPT !.err = access(BoardTensor, origin)]
                  ELSE apply(BoardTensor, State, RealBoard,
                             direct_move([tensor |-> BoardTensor, contents |-> contents],
                                         origin, destination))} :
           /\ contents' = s.contents
           /\ jail' = s.jail
           /\ loc' = s.loc
           /\ last' = [NoCall EXCEPT !.op = "direct_move", !.err = s.err,
                                     !.idx = s.idx, !.key = Some(origin),
                                     !.destination = Some(destination),
                                     !.before = Before]
    /\ UNCHANGED <<ray, shape>>

\* piece.get_moves() for a piece that is placed on the board under test and
\* was constructed with move_generators
GetMoves(piece, move_generators) ==
    /\ Call
    /\ loc[piece].board = RealBoard
    /\ loc[piece].place # Nothing
    /\ \E m \in {get_moves(piece, BoardTensor, [contents |-> contents, jail |-> jail],
                              loc, move_generators)} :
           /\ contents' = m.real.contents
           /\ jail' = m.real.jail
           /\ loc' = m.loc
           /\ last' = [NoCall EXCEPT !.op = "get_moves", !.err = m.err,
                                     !.piece = piece,
                                     !.move_generators = move_generators,
                                     !.moves = IF m.err = "ok" THEN m.moves ELSE << >>,
                                     !.trace = m.trace, !.before = Before]
    /\ UNCHANGED <<ray, shape>>

\* the caller drops the record of the finished call
Discard ==
    /\ last # NoCall
    /\ last' = NoCall
    /\ UNCHANGED <<ray, shape, contents, jail, loc, calls>>

Next ==
    \/ Idle /\ \E key \in TestPoints, value \in Pieces \cup {None} : SetItem(key, value)
    \/ Idle /\ \E key \in TestPoints : DelItem(key)
    \/ Idle /\ \E key \in TestPoints : GetItem(key)
    \/ Idle /\ \E sequence \in Sequences : Apply(sequence)
    \/ Idle /\ \E origin \in MutationPoints, destination \in MutationPoints :
                   Move(origin, destination)
    \/ Idle /\ \E piece \in Pieces, move_generators \in GeneratorLists :
                   GetMoves(piece, move_generators)
    \/ Discard

Spec == Init /\ [][Next]_vars

\* the board alone: set, delete and apply
NextBoard ==
    \/ Idle /\ \E key \in TestPoints, value \in Pieces \cup {None} : SetItem(key, value)
    \/ Idle /\ \E key \in TestPoints : DelItem(key)
    \/ Idle /\ \E key \in TestPoints : GetItem(key)
    \/ Idle /\ \E sequence \in Sequences : Apply(sequence)
    \/ Discard

SpecBoard == Init /\ [][NextBoard]_vars

\* apply alone
NextApply ==
    \/ Idle /\ \E sequence \in Sequences : Apply(sequence)
    \/ Discard

SpecApply == Init /\ [][NextApply]_vars

\* the tensor alone: get and iteration
NextTensor ==
    \/ Idle /\ \E item \in PointsBelow(shape) : TensorGetItem(item)
    \/ Idle /\ TensorIter
    \/ Discard

SpecTensor == InitTensor /\ [][NextTensor]_vars

\* single source/target mutations on the boards of a test
NextMutate ==
    \/ Idle /\ \E mutation \in SourceTargetMutations : Mutate(mutation)
    \/ Discard

SpecMutate == InitMutate /\ [][NextMutate]_vars

\* the points alone: comparison, addition and zero
NextPoint ==
    \/ Idle /\ \E a \in TestPointValues, b \in TestPointValues, c \in TestPointValues :
                   PointCompare(<<a, b, c>>)
    \/ Idle /\ \E dimensions \in 0..MaxPointDim : PointZero(dimensions)
    \/ Discard

SpecPoint == Init /\ [][NextPoint]_vars

\* the rays over the boards of a test: check_iterators consumes one generator
\* object after the other, each to its end, and does not touch the board
NextRay ==
    \/ \E point \in RayOrigins, step_generator \in StepGenerators,
          capture \in BOOLEAN : RayCreate(point, step_generator, capture)
    \/ RayNext
    \/ RayDrop

SpecRay == InitRay /\ [][NextRay]_vars
\* the for loop of check_iterators goes on until the generator is exhausted
SpecRayLive == InitRayLive /\ [][NextRay]_vars /\ WF_vars(RayNext)

(* ------------------------------ properties ----------------------------- *)
Cell(c) == getitem(BoardTensor, contents, c)
CellBefore(c) == getitem(BoardTensor, last.before.contents, c)
At(place) == [board |-> RealBoard, place |-> place]
OnGrid(p) == \E c \in OnBoard : Cell(c) = p
InJail(p) == \E player \in Players : p \in jail[player]
StateBefore ==
    [contents |-> last.before.contents, jail |-> last.before.jail,
     loc |-> last.before.loc, err |-> "ok", idx |-> 0, touched |-> {}]

\* C1: Invariant I1: after any sequence of set, delete and apply calls on a
\* new board, every populated cell c holds a piece whose recorded location is
\* (board, c), also when a piece already on the board is placed elsewhere.
I1 == \A c \in OnBoard : Cell(c) # None => loc[Cell(c)] = At(Some(c))

\* C2: Invariant I2: after any sequence of apply calls, no piece is at the
\* same time in a cell of the grid and in one of the board's jail sets.
I2 == \A p \in Pieces : ~(OnGrid(p) /\ InJail(p))

\* C3: a legality trial never changes the back-reference of a piece of the
\* board: after get_moves, whether it returned or raised, the recorded
\* location of every piece, the payloads of the candidates included, is what
\* it was before the call.
BackReferencesKept == last.op = "get_moves" => loc = last.before.loc
\* a call that tried a candidate of direct_move, whose payload is the piece
\* of the board itself
BackReferencesKeptWitness ==
    /\ last.op = "get_moves"
    /\ \E i \in DOMAIN last.trace :
           /\ Len(last.trace[i].sequence) = 2
           /\ last.trace[i].sequence[2].op = PLACE
           /\ last.trace[i].sequence[2].payload = last.piece
           /\ last.before.loc[last.piece] = At(Some(last.trace[i].sequence[1].point))

\* C4: get_moves leaves every cell and every jail set of the board as it
\* was, for accepted and for rejected candidates alike.
RealBoardUnchanged ==
    last.op = "get_moves" =>
        contents = last.before.contents /\ jail = last.before.jail
\* a call that returned, having accepted a candidate and rejected another,
\* on a board with a piece in a cell and a piece in jail
RealBoardUnchangedWitness ==
    /\ last.op = "get_moves"
    /\ last.err = "ok"
    /\ \E i, j \in DOMAIN last.trace :
           /\ last.trace[i].verdict = "ok"
           /\ last.trace[j].verdict = "IllegalBoardState"
    /\ \E player \in Players : jail[player] # {}

\* a trial that did not raise IllegalBoardState
IsAccepted(e) == e.verdict # "IllegalBoardState"
\* a candidate that is a sequence with all its points on the board
WellFormed(c, place) ==
    \/ /\ c.kind = "sequence"
       /\ \A i \in DOMAIN c.sequence : c.sequence[i].point \in OnBoard
    \/ /\ c.kind = "direct_move"
       /\ add(place, c.step[1]) \in OnBoard
\* the sequence the generator produces for c, called with the board as it
\* was and the place of the piece
Produced(c, place) ==
    IF c.kind = "direct_move"
    THEN direct_move([tensor |-> BoardTensor, contents |-> last.before.contents],
                     place, add(place, c.step[1]))
    ELSE c.sequence
\* C5: get_moves returns exactly the candidates whose trial did not raise
\* IllegalBoardState, each as the generator produced it, generators in
\* registration order and candidates in the order of their generator. The
\* candidates are sequences whose points are all on the board.
MovesAreAcceptedInOrder ==
    (/\ last.op = "get_moves"
     /\ \A gi \in DOMAIN last.move_generators :
            \A k \in DOMAIN last.move_generators[gi] :
                WellFormed(last.move_generators[gi][k],
                           last.before.loc[last.piece].place[1])) =>
        /\ last.err = "ok"
        /\ LET accepted == SelectSeq(last.trace, IsAccepted)
               n == Len(last.trace)
               place == last.before.loc[last.piece].place[1]
           IN  /\ last.moves = [j \in DOMAIN accepted |-> accepted[j].sequence]
               /\ \A gi \in DOMAIN last.move_generators :
                      \A k \in DOMAIN last.move_generators[gi] :
                          \E i \in 1..n : /\ last.trace[i].generator = gi
                                          /\ last.trace[i].candidate = k
               /\ \A i \in 1..(n - 1) :
                      \/ last.trace[i].generator < last.trace[i + 1].generator
                      \/ /\ last.trace[i].generator = last.trace[i + 1].generator
                         /\ last.trace[i].candidate < last.trace[i + 1].candidate
               /\ \A i \in 1..n :
                      LET e == last.trace[i]
                      IN  e.sequence =
                              Produced(last.move_generators[e.generator][e.candidate],
                                       place)

\* C6: IllegalBoardState never reaches the caller of get_moves, whether the
\* trial or a move generator raised it.
NoVetoEscapes == last.op = "get_moves" => last.err # "IllegalBoardState"

\* C7: a trial that fails with IndexError (a mutation point off the board)
\* is not a rejected candidate: get_moves stops there, raises the error and
\* returns nothing.
StructuralErrorsPropagate ==
    last.op = "get_moves" =>
        \A i \in DOMAIN last.trace :
            last.trace[i].verdict = "IndexError" =>
                /\ last.err = "IndexError"
                /\ i = Len(last.trace)
                /\ last.moves = << >>
\* a call that had accepted a candidate and rejected another before a trial
\* left the board
StructuralErrorsPropagateWitness ==
    /\ last.op = "get_moves"
    /\ last.err = "IndexError"
    /\ Len(last.trace) >= 3
    /\ last.trace[1].verdict = "ok"
    /\ last.trace[2].verdict = "IllegalBoardState"
    /\ last.trace[Len(last.trace)].verdict = "IndexError"

\* the point of the i-th mutation of the applied sequence is off the board
OffBoardAt(i) == access(BoardTensor, last.sequence[i].point) = "IndexError"
\* C8: apply raises IndexError at the first mutation whose point is off the
\* board; the mutations before it stay applied, the failing one and those
\* after it change nothing.
NotTransactional ==
    last.op = "apply" =>
        /\ \A i \in DOMAIN last.sequence :
               (OffBoardAt(i) /\ \A h \in 1..(i - 1) : ~OffBoardAt(h)) =>
                   /\ last.err # "ok"
                   /\ last.idx <= i
                   /\ last.idx = i => last.err = "IndexError"
        /\ last.err = "IndexError" =>
               LET s == apply(BoardTensor, StateBefore, RealBoard,
                              SubSeq(last.sequence, 1, last.idx - 1))
               IN  /\ s.err = "ok"
                   /\ contents = s.contents
                   /\ jail = s.jail
                   /\ loc = s.loc
\* the second mutation was off the board and the first one's change is kept
NotTransactionalWitness ==
    /\ last.op = "apply"
    /\ last.err = "IndexError"
    /\ last.idx = 2
    /\ contents # last.before.contents
    /\ jail # last.before.jail

\* a call apply([mutation]) with a single mutation on the board
Single(op) ==
    /\ last.op = "apply"
    /\ Len(last.sequence) = 1
    /\ last.sequence[1].op = op
    /\ access(BoardTensor, last.sequence[1].point) = "ok"

\* C9 as stated: PLACE(point, payload) on an occupied point adds the previous
\* occupant to the jail of payload's owner and to no other, clears the
\* occupant's location to (board, None) and leaves payload in the cell with
\* location (board, point); on an empty point it only writes payload.
PlaceDisplacesAsStated ==
    Single(PLACE) =>
        LET mutation == last.sequence[1]
            occupant == CellBefore(mutation.point)
        IN  IF occupant # None
            THEN mutation.payload # None =>
                   /\ last.err = "ok"
                   /\ jail = [last.before.jail EXCEPT
                                 ![Owner(mutation.payload)] = @ \cup {occupant}]
                   /\ loc[occupant] = At(Nothing)
                   /\ Cell(mutation.point) = mutation.payload
                   /\ loc[mutation.payload] = At(Some(mutation.point))
            ELSE /\ last.err = "ok"
                 /\ jail = last.before.jail
                 /\ contents = [last.before.contents EXCEPT
                                   ![index(shape, mutation.point) + 1] = mutation.payload]
                 /\ \A q \in Pieces \ {mutation.payload} : loc[q] = last.before.loc[q]
                 /\ mutation.payload # None =>
                        loc[mutation.payload] = At(Some(mutation.point))

\* C9 amended: as above, but the occupant's location is cleared to
\* (board, None) only if the occupant is not payload itself.
PlaceDisplaces ==
    Single(PLACE) =>
        LET mutation == last.sequence[1]
            occupant == CellBefore(mutation.point)
        IN  IF occupant # None
            THEN mutation.payload # None =>
                   /\ last.err = "ok"
                   /\ jail = [last.before.jail EXCEPT
                                 ![Owner(mutation.payload)] = @ \cup {occupant}]
                   /\ occupant # mutation.payload => loc[occupant] = At(Nothing)
                   /\ Cell(mutation.point) = mutation.payload
                   /\ loc[mutation.payload] = At(Some(mutation.point))
            ELSE /\ last.err = "ok"
                 /\ jail = last.before.jail
                 /\ contents = [last.before.contents EXCEPT
                                   ![index(shape, mutation.point) + 1] = mutation.payload]
                 /\ \A q \in Pieces \ {mutation.payload} : loc[q] = last.before.loc[q]
                 /\ mutation.payload # None =>
                        loc[mutation.payload] = At(Some(mutation.point))
\* a piece of the other player was displaced by the payload
PlaceDisplacesWitness ==
    /\ Single(PLACE)
    /\ last.err = "ok"
    /\ last.sequence[1].payload # None
    /\ CellBefore(last.sequence[1].point) # None
    /\ CellBefore(last.sequence[1].point) # last.sequence[1].payload
    /\ Owner(CellBefore(last.sequence[1].point)) # Owner(last.sequence[1].payload)

\* C10: CAPTURE(point, payload) on an occupied point adds the occupant to the
\* jail of payload's owner, clears the cell, places no piece and leaves every
\* other jail as it was.
CaptureJails ==
    (/\ Single(CAPTURE)
     /\ last.sequence[1].payload # None
     /\ CellBefore(last.sequence[1].point) # None) =>
        LET mutation == last.sequence[1]
            occupant == CellBefore(mutation.point)
        IN  /\ last.err = "ok"
            /\ jail = [last.before.jail EXCEPT
                          ![Owner(mutation.payload)] = @ \cup {occupant}]
            /\ contents = [last.before.contents EXCEPT
                              ![index(shape, mutation.point) + 1] = None]
            /\ mutation.payload # occupant =>
                   loc[mutation.payload] = last.before.loc[mutation.payload]
\* a piece was captured for the other player
CaptureJailsWitness ==
    /\ Single(CAPTURE)
    /\ last.err = "ok"
    /\ last.sequence[1].payload # None
    /\ CellBefore(last.sequence[1].point) # None
    /\ Owner(CellBefore(last.sequence[1].point)) # Owner(last.sequence[1].payload)
    /\ CellBefore(last.sequence[1].point) \in jail[Owner(last.sequence[1].payload)]

\* C11: REMOVE(point) on an occupied point clears the cell and discards the
\* occupant: no jail set changes and the removed piece is in no cell of the
\* grid afterwards.
RemoveDiscards ==
    (Single(REMOVE) /\ CellBefore(last.sequence[1].point) # None) =>
        /\ last.err = "ok"
        /\ Cell(last.sequence[1].point) = None
        /\ jail = last.before.jail
        /\ ~OnGrid(CellBefore(last.sequence[1].point))

\* C12: a PLACE or CAPTURE mutation without payload makes apply fail; it is
\* never ignored or applied as a no-op.
InvalidMutationRaises ==
    (/\ last.op = "apply"
     /\ \E i \in DOMAIN last.sequence :
            /\ last.sequence[i].op \in {PLACE, CAPTURE}
            /\ last.sequence[i].payload = None) =>
        last.err # "ok"

\* a call of get, set or delete with a key
Access == last.op \in {"getitem", "setitem", "delitem"}
\* the board, its jail and the back-references are as before the call
Untouched ==
    /\ contents = last.before.contents
    /\ jail = last.before.jail
    /\ loc = last.before.loc

\* C13: set/get round trip: after board[c] = p for a coordinate c on the
\* board, a get of c returns p and, if p is a piece, its recorded location
\* is (board, c); after board[c] = None or del board[c] a get of c returns
\* empty.
SetGetRoundTrip ==
    /\ (last.op = "setitem" /\ last.key[1] \in OnBoard) =>
           /\ last.err = "ok"
           /\ access(BoardTensor, last.key[1]) = "ok"
           /\ getitem(BoardTensor, contents, last.key[1]) = last.value
           /\ last.value # None => loc[last.value] = At(last.key)
    /\ (last.op = "delitem" /\ last.key[1] \in OnBoard) =>
           /\ last.err = "ok"
           /\ access(BoardTensor, last.key[1]) = "ok"
           /\ getitem(BoardTensor, contents, last.key[1]) = None
\* a piece was set on a cell that held another piece
SetGetRoundTripWitness ==
    /\ last.op = "setitem"
    /\ last.err = "ok"
    /\ last.value # None
    /\ CellBefore(last.key[1]) \notin {None, last.value}

\* the key has the board's dimension and a component below 0 or at or above
\* the extent of its dimension
OutOfBounds(key) ==
    /\ Len(key) = Len(shape)
    /\ \E i \in 1..Len(key) : key[i] < 0 \/ key[i] >= shape[i]
\* C14: get, set and delete at a coordinate with a component below 0 or at or
\* above the shape's component raise IndexError, and grid, jail and
\* back-references are as before; no other cell is read or written.
BoundsEnforced ==
    (Access /\ OutOfBounds(last.key[1])) =>
        /\ last.err = "IndexError"
        /\ last.op = "getitem" => last.value = None
        /\ Untouched
\* a piece was set at a point that is off the board in one dimension only,
\* on a board that holds another piece
BoundsEnforcedWitness ==
    /\ last.op = "setitem"
    /\ last.err = "IndexError"
    /\ last.key[1] \in OneHotOffBoard
    /\ last.value # None
    /\ \E c \in OnBoard : Cell(c) \notin {None, last.value}

RECURSIVE SuffixProduct(_, _)
SuffixProduct(shp, i) ==
    IF i >= Len(shp) THEN 1 ELSE shp[i + 1] * SuffixProduct(shp, i + 1)
\* sum_i c[i] * product(shp[i+1..]), from the i-th dimension on
RECURSIVE RowMajor(_, _, _)
RowMajor(shp, c, i) ==
    IF i > Len(shp) THEN 0
    ELSE c[i] * SuffixProduct(shp, i) + RowMajor(shp, c, i + 1)
\* c is before d in lexicographic order
LexLess(c, d) ==
    \E i \in 1..Len(c) : c[i] < d[i] /\ \A j \in 1..(i - 1) : c[j] = d[j]
\* the position of c among the points of the tensor in lexicographic order
LexRank(c) == Cardinality({d \in PointsBelow(shape) : LexLess(d, c)}) + 1
\* C20: row-major addressing: the cell read at an in-bounds coordinate c is
\* the one at flat index sum_i c[i] * product(shape[i+1..]); the index is in
\* 0..size-1 and the map preserves the lexicographic order of the
\* coordinates, hence is a bijection onto 0..size-1; iterating the tensor
\* yields the cells in lexicographic order of their coordinates.
RowMajorAddressing ==
    /\ last.op = "tensor_getitem" =>
           /\ last.err = "ok"
           /\ last.value = RowMajor(shape, last.key[1], 1)
           /\ last.value = index(shape, last.key[1])
           /\ last.value \in 0..(product(shape) - 1)
           /\ \A d \in PointsBelow(shape) :
                  LexLess(last.key[1], d) <=> last.value < index(shape, d)
    /\ last.op = "tensor_iter" =>
           /\ Len(last.sequence) = product(shape)
           /\ Cardinality(PointsBelow(shape)) = product(shape)
           /\ \A c \in PointsBelow(shape) :
                  last.sequence[LexRank(c)] = getitem(BoardTensor, contents, c)
\* a cell in the middle of a tensor of three dimensions with different
\* extents was read
RowMajorAddressingWitness ==
    /\ last.op = "tensor_getitem"
    /\ shape = <<2, 3, 2>>
    /\ last.key[1] = <<1, 1, 1>>
    /\ last.value = 9

\* C16: on a finite board the generator object of get_repeated_points
\* terminates for every origin and step sequence, infinite and non-constant
\* ones included: once made and consumed it yields finitely many coordinates
\* and then returns (or raises).
RayTerminates == (ray.pc = "created") ~> (ray.pc \in {"done", "raised"})
\* the step generator gives the same step for ever
ConstantStep ==
    ray.step_generator.restart = 0 /\ Len(ray.step_generator.list) = 1
\* origin + i * step
RayPoint(i) ==
    [d \in 1..Len(ray.origin[1]) |->
        ray.origin[1][d] + i * ray.step_generator.list[1][d]]
\* the i-th point of the line is on the board and empty
Clear(i) == RayPoint(i) \in PointsBelow(shape) /\ Cell(RayPoint(i)) = None
\* the number of points of the line before the first that is off the board
\* or occupied
FreeRun ==
    CHOOSE k \in 0..product(shape) :
        (\A i \in 1..k : Clear(i)) /\ ~Clear(k + 1)
\* C17: with a constant step s and a piece at the origin o, the ray yields
\* exactly o+s, o+2s, ... in that order for as long as the coordinate is on
\* the board and empty; after the first coordinate that is off the board or
\* occupied it yields nothing, apart from that coordinate itself when it is
\* an occupied cell of the board (the capturable terminal cell).
ConstantStepRay ==
    (/\ ray.pc \in {"yielded", "captured", "done"}
     /\ ConstantStep
     /\ ray.origin[1] \in PointsBelow(shape)
     /\ Cell(ray.origin[1]) # None) =>
        /\ ~ray.more
        /\ \A i \in 1..Len(ray.yielded) :
               i <= FreeRun => ray.yielded[i] = RayPoint(i)
        /\ ray.pc = "yielded" => Len(ray.yielded) \in 1..FreeRun
        /\ ray.pc = "captured" => Len(ray.yielded) = FreeRun + 1
        /\ ray.pc = "done" => Len(ray.yielded) \in {FreeRun, FreeRun + 1}
        /\ Len(ray.yielded) = FreeRun + 1 =>
               /\ ray.yielded[FreeRun + 1] = RayPoint(FreeRun + 1)
               /\ RayPoint(FreeRun + 1) \in PointsBelow(shape)
\* a ray of three cells from a piece in the corner ran off the board
ConstantStepRayWitness ==
    /\ ray.pc = "done"
    /\ ConstantStep
    /\ ray.origin = Some(<<0, 0>>)
    /\ Cell(<<0, 0>>) # None
    /\ ray.yielded = <<<<0, 1>>, <<0, 2>>, <<0, 3>>>>
\* the ray of a piece is at an occupied cell of the board
AtOccupied ==
    /\ ray.piece # None
    /\ access(BoardTensor, ray.point) = "ok"
    /\ Cell(ray.point) # None
\* C18: when the ray reaches an occupied cell it stops there in every case
\* (it goes on from empty cells only); the occupied cell is yielded, as the
\* last element, if and only if capture is enabled and the owner of the
\* occupant differs from the owner of the piece at the origin.
RayCapturePolicy ==
    /\ ray.pc = "yielded" => ~AtOccupied
    /\ ray.pc = "captured" => AtOccupied
    /\ (ray.pc \in {"captured", "done"} /\ AtOccupied) =>
           /\ (ray.last_yield = Some(ray.point)) <=>
                  (ray.capture /\ PlayerOf(ray.piece) # PlayerOf(Cell(ray.point)))
           /\ ray.pc = "captured" => ray.last_yield = Some(ray.point)
           /\ \A i \in 1..Len(ray.yielded) :
                  Cell(ray.yielded[i]) # None =>
                      ~ray.more /\ i = Len(ray.yielded) /\ ray.yielded[i] = ray.point
\* a ray went over two empty cells and ended on the piece of the other
\* player, which it yielded
RayCapturePolicyWitness ==
    /\ ray.pc = "done"
    /\ AtOccupied
    /\ ray.capture
    /\ Len(ray.yielded) = 3
    /\ ray.yielded[3] = ray.point
    /\ PlayerOf(ray.piece) # PlayerOf(Cell(ray.point))

\* the points of the comparison, and its outcomes
Pt(i) == last.sequence[i]
Sum(i, j) == last.trace[i][j].add
LessEq(i, j) == last.trace[i][j].le
Less(i, j) == last.trace[i][j].lt
SameDim(i, j) == Len(Pt(i)) = Len(Pt(j))
\* C21: strict ordering is irreflexive: for every coordinate c of every
\* dimension, dimension 0 included, c < c returns false.
LtIrreflexive ==
    last.op = "point_compare" =>
        \A i \in 1..3 : Less(i, i).err = "ok" /\ Less(i, i).value = FALSE

\* C22: comparison is componentwise: for coordinates a and b of the same
\* dimension, a <= b returns true iff every component of a is <= the matching
\* component of b, and a < b iff every component is strictly smaller; <= is
\* reflexive, antisymmetric and transitive; and there are pairs of the same
\* dimension for which neither a <= b nor b <= a.
ComponentwiseOrder ==
    last.op = "point_compare" =>
        /\ \A i, j \in 1..3 : SameDim(i, j) =>
               /\ LessEq(i, j).err = "ok" /\ Less(i, j).err = "ok"
               /\ LessEq(i, j).value <=>
                      \A d \in 1..Len(Pt(i)) : Pt(i)[d] <= Pt(j)[d]
               /\ Less(i, j).value <=>
                      \A d \in 1..Len(Pt(i)) : Pt(i)[d] < Pt(j)[d]
               /\ (LessEq(i, j).value /\ LessEq(j, i).value) => Pt(i) = Pt(j)
        /\ \A i \in 1..3 : LessEq(i, i).value
        /\ \A i, j, k \in 1..3 :
               (SameDim(i, j) /\ SameDim(j, k)
                    /\ LessEq(i, j).value /\ LessEq(j, k).value) =>
                   LessEq(i, k).value
        /\ \E a, b \in TestPointValues :
               /\ point_le(a, b).err = "ok" /\ ~point_le(a, b).value
               /\ point_le(b, a).err = "ok" /\ ~point_le(b, a).value
\* three points of dimension 2 were compared: a chain of two, and a third
\* that is comparable with neither
ComponentwiseOrderWitness ==
    /\ last.op = "point_compare"
    /\ Len(Pt(1)) = 2 /\ SameDim(1, 2) /\ SameDim(2, 3)
    /\ LessEq(1, 2).value /\ Pt(1) # Pt(2) /\ ~Less(1, 2).value
    /\ ~LessEq(1, 3).value /\ ~LessEq(3, 1).value
    /\ ~LessEq(2, 3).value /\ ~LessEq(3, 2).value

\* C23: +, < and <= applied to two coordinates of different dimensions fail
\* with the dimension-mismatch error (ValueError); none of them returns a
\* truncated sum or false.
MismatchRaises ==
    last.op = "point_compare" =>
        \A i, j \in 1..3 : ~SameDim(i, j) =>
            /\ Sum(i, j).err = "ValueError"
            /\ LessEq(i, j).err = "ValueError"
            /\ Less(i, j).err = "ValueError"
\* a point of dimension 1 was added to and compared with one of dimension 2,
\* in both orders
MismatchRaisesWitness ==
    /\ last.op = "point_compare"
    /\ Len(Pt(1)) = 1 /\ Len(Pt(2)) = 2
    /\ Sum(1, 2).err = "ValueError" /\ Sum(2, 1).err = "ValueError"
    /\ Less(1, 2).err = "ValueError" /\ LessEq(2, 1).err = "ValueError"
\* the point of n zeros, built component by component
RECURSIVE Zeros(_)
Zeros(n) == IF n = 0 THEN << >> ELSE Append(Zeros(n - 1), 0)
\* C24: addition is componentwise and zero(n) is its identity: the sum of two
\* coordinates of dimension n has dimension n and each of its components is
\* the sum of the matching components; c + zero(n) = c and zero(n) + c = c;
\* and zero(n) is the coordinate built from n zeros.
AddZeroIdentity ==
    /\ last.op = "point_compare" =>
           \A i, j \in 1..3 : SameDim(i, j) =>
               /\ Sum(i, j).err = "ok"
               /\ Len(Sum(i, j).value) = Len(Pt(i))
               /\ \A d \in 1..Len(Pt(i)) : Sum(i, j).value[d] = Pt(i)[d] + Pt(j)[d]
               /\ Pt(j) = zero(Len(Pt(i))) =>
                      Sum(i, j).value = Pt(i) /\ Sum(j, i).value = Pt(i)
    /\ last.op = "point_zero" =>
           /\ Len(last.sequence) = last.idx
           /\ last.sequence = Zeros(last.idx)
\* a point of dimension 2 with two different components was added to the
\* zero of its dimension
AddZeroIdentityWitness ==
    /\ last.op = "point_compare"
    /\ Pt(1) = <<1, 2>>
    /\ Pt(2) = zero(2)
    /\ Sum(1, 2).value = <<1, 2>> /\ Sum(2, 1).value = <<1, 2>>

\* piece p was on the grid before the last call and the call took it off
OnGridBefore(p) == \E c \in OnBoard : CellBefore(c) = p
TakenOff(p) == last.op # "none" /\ OnGridBefore(p) /\ ~OnGrid(p)
\* C25 as claimed: after a piece is removed from the grid by REMOVE, CAPTURE,
\* displacement by PLACE, set or delete, both the board part and the
\* coordinate part of its back-reference are None.
RemovedIsNowhere ==
    \A p \in Pieces :
        TakenOff(p) => loc[p] = [board |-> NoBoard, place |-> Nothing]
\* C25: after a piece is removed from the grid by REMOVE, CAPTURE,
\* displacement by PLACE, set or delete, the coordinate part of its
\* back-reference is None and the board part is the board it was removed
\* from.
RemovedKeepsBoard ==
    \A p \in Pieces : TakenOff(p) => loc[p] = At(Nothing)
\* a piece was captured off the grid by a sequence and is in a jail
RemovedKeepsBoardWitness ==
    \E p \in Pieces :
        /\ last.op = "apply"
        /\ last.err = "ok"
        /\ TakenOff(p)
        /\ InJail(p)
        /\ loc[p] = At(Nothing)

\* the target of the last mutate, its occupant before the call, and the
\* incoming piece: the occupant of a source coordinate before the call, or
\* the piece given
Target == last.destination[1]
Current == CellBefore(Target)
Incoming == IF last.key # Nothing THEN CellBefore(last.key[1]) ELSE last.piece
Mutated == last.op = "mutate" /\ last.err = "ok"
\* C26: mutate returns the piece that occupied target before the call, except
\* when that piece is the incoming piece itself, in which case no displaced
\* piece is reported; afterwards target holds the incoming piece and a
\* displaced piece has recorded location (board, None).
MutateReturnsDisplaced ==
    Mutated =>
        /\ last.value = (IF Current = Incoming THEN None ELSE Current)
        /\ Cell(Target) = Incoming
        /\ (Current # None /\ Current # Incoming) => loc[Current] = At(Nothing)
\* a piece was moved from a source coordinate onto the piece of another cell
\* (test_capture_point), which was returned
MutateReturnsDisplacedWitness ==
    /\ Mutated
    /\ last.key # Nothing
    /\ Incoming # None /\ Current # None /\ Current # Incoming
    /\ last.value = Current
    /\ Cell(Target) = Incoming
\* C27 as claimed: whenever the source of a mutate is a coordinate, the source
\* cell is empty after the mutation, for every in-bounds source and target.
SourceCellEmptied ==
    (Mutated /\ last.key # Nothing) => Cell(last.key[1]) = None
\* C27: whenever the source of a mutate is a coordinate other than the
\* target, the source cell is empty after the mutation; when the source is
\* the target, the cell holds after the mutation what it held before.
SourceCellEmptiedUnlessTarget ==
    (Mutated /\ last.key # Nothing) =>
        IF last.key[1] = Target THEN Cell(Target) = Current
        ELSE Cell(last.key[1]) = None
\* a piece was moved from its cell to another cell (test_move_point)
SourceCellEmptiedUnlessTargetWitness ==
    /\ Mutated
    /\ last.key # Nothing
    /\ last.key[1] # Target
    /\ Incoming # None
    /\ Cell(last.key[1]) = None
    /\ Cell(Target) = Incoming

\* the last call wrote one cell: b[c] = v, del b[c], or apply of one mutation
CellWrite ==
    last.op \in {"setitem", "delitem"}
        \/ (last.op = "apply" /\ Len(last.sequence) = 1)
WrittenPoint ==
    IF last.op = "apply" THEN last.sequence[1].point ELSE last.key[1]
WrittenPiece ==
    IF last.op = "setitem" THEN last.value
    ELSE IF last.op = "apply" /\ last.sequence[1].op = PLACE
    THEN last.sequence[1].payload
    ELSE None
\* C29: frame of a single cell write: b[c] = v, del b[c] and one PLACE, REMOVE
\* or CAPTURE mutation at point c change no grid cell other than c, and
\* change the back-reference of no piece other than the previous occupant of
\* c and the written piece.
CellWriteFrame ==
    CellWrite =>
        IF access(BoardTensor, WrittenPoint) # "ok"
        THEN contents = last.before.contents /\ loc = last.before.loc
        ELSE /\ \A d \in OnBoard : d # WrittenPoint => Cell(d) = CellBefore(d)
             /\ \A p \in Pieces :
                    loc[p] # last.before.loc[p] =>
                        p \in {CellBefore(WrittenPoint), WrittenPiece}
\* a piece that was on another cell was written over the piece of a cell: the
\* other cell and the third piece are as before
CellWriteFrameWitness ==
    /\ last.op = "setitem"
    /\ last.err = "ok"
    /\ WrittenPiece # None
    /\ CellBefore(WrittenPoint) \notin {None, WrittenPiece}
    /\ \E d \in OnBoard : d # WrittenPoint /\ CellBefore(d) = WrittenPiece
    /\ loc[WrittenPiece] = At(Some(WrittenPoint))

(* -------------------- two boards sharing the pieces -------------------- *)
\* A piece is not tied to a board: the same Piece object can be given to
\* two Board objects. Under SpecBoards contents and jail hold one entry per
\* board, and loc holds for each piece the (board, place) it records.
OtherBoard == "other_board"
Boards == {RealBoard, OtherBoard}
MaxBoardCalls == 4

\* two boards Board(shape) and the pieces, none placed yet
InitBoards ==
    /\ shape = Shape
    /\ contents = [board \in Boards |-> Tensor(Shape)]
    /\ jail = [board \in Boards |-> [player \in Players |-> {}]]
    /\ loc = [p \in Pieces |-> [board |-> NoBoard, place |-> Nothing]]
    /\ calls = 0
    /\ last = NoCall
    /\ ray = NoRay

\* what a method of the board sees: its own cells and jail, and the pieces
StateOf(board) ==
    [contents |-> contents[board], jail |-> jail[board], loc |-> loc,
     err |-> "ok", idx |-> 0, touched |-> {}]

CallOn ==
    /\ Idle
    /\ calls < MaxBoardCalls
    /\ calls' = calls + 1

\* board[key] = value, on either board
SetItemOn(board, key, value) ==
    /\ CallOn
    /\ \E s \in {setitem(BoardTensor, StateOf(board), board, key, value)} :
           /\ contents' = [contents EXCEPT ![board] = s.contents]
           /\ loc' = s.loc
           /\ last' = [NoCall EXCEPT !.op = "setitem", !.err = s.err,
                                     !.key = Some(key), !.value = value]
    /\ UNCHANGED <<ray, shape, jail>>

\* del board[key], on either board
DelItemOn(board, key) ==
    /\ CallOn
    /\ \E s \in {delitem(BoardTensor, StateOf(board), board, key)} :
           /\ contents' = [contents EXCEPT ![board] = s.contents]
           /\ loc' = s.loc
           /\ last' = [NoCall EXCEPT !.op = "delitem", !.err = s.err,
                                     !.key = Some(key)]
    /\ UNCHANGED <<ray, shape, jail>>

\* board.apply(sequence), on either board
ApplyOn(board, sequence) ==
    /\ CallOn
    /\ \E s \in {apply(BoardTensor, StateOf(board), board, sequence)} :
           /\ contents' = [contents EXCEPT ![board] = s.contents]
           /\ jail' = [jail EXCEPT ![board] = s.jail]
           /\ loc' = s.loc
           /\ last' = [NoCall EXCEPT !.op = "apply", !.err = s.err,
                                     !.idx = s.idx, !.sequence = sequence]
    /\ UNCHANGED <<ray, shape>>

\* the sequences of one mutation; longer ones are made of several calls
OneMutation == {<<mutation>> : mutation \in Mutation}

NextBoards ==
    \/ Idle /\ \E board \in Boards, key \in TestPoints, value \in Pieces \cup {None} :
                   SetItemOn(board, key, value)
    \/ Idle /\ \E board \in Boards, key \in TestPoints : DelItemOn(board, key)
    \/ Idle /\ \E board \in Boards, sequence \in OneMutation : ApplyOn(board, sequence)
    \/ Discard

SpecBoards == InitBoards /\ [][NextBoards]_vars

\* C30: back-reference soundness (the converse of I1): after any sequence
\* of set, delete and apply calls on any of the boards, every piece whose
\* recorded location is (b, c) with c not None is the occupant of cell c of
\* board b.
CellOf(board, c) == getitem(BoardTensor, contents[board], c)
BackReferenceSound ==
    \A p \in Pieces :
        loc[p].place # Nothing =>
            /\ loc[p].board \in Boards
            /\ access(BoardTensor, loc[p].place[1]) = "ok"
            /\ CellOf(loc[p].board, loc[p].place[1]) = p
\* a piece that sits in cells of both boards records the other board, after
\* a call that displaced a piece there, and a piece that was displaced on
\* the first board while it sat on the other records no place
BackReferenceSoundWitness ==
    /\ last.op \in {"setitem", "apply"} /\ last.err = "ok"
    /\ \E p \in Pieces :
           /\ loc[p].board = OtherBoard /\ loc[p].place # Nothing
           /\ \E c \in OnBoard : CellOf(RealBoard, c) = p
    /\ \E q \in Pieces :
           /\ loc[q].place = Nothing /\ loc[q].board = OtherBoard
           /\ \A c \in OnBoard : CellOf(OtherBoard, c) # q

(* ------------------------------ the jail ------------------------------- *)
\* C31: jail sets only grow: no step of get, set, delete, apply or get_moves
\* takes a piece out of a jail set, so a piece once in a jail set is in it in
\* every later state, also after it is placed on the grid again.
JailOnlyGrows ==
    [][\A player \in Players : jail[player] \subseteq jail'[player]]_vars
\* a piece that was in a jail set before the call has been placed on the grid
\* by the call and is still in the jail set
JailOnlyGrowsWitness ==
    /\ last.op \in {"setitem", "apply"} /\ last.err = "ok"
    /\ \E p \in Pieces, player \in Players, c \in OnBoard :
           /\ p \in last.before.jail[player]
           /\ p \in jail[player]
           /\ CellBefore(c) # p
           /\ Cell(c) = p

(* ----------------------- direct_move on full boards -------------------- *)
\* the boards a game can be on: every piece is in one cell of the grid, or
\* it was captured, is in one jail set and records (board, None)
InitMove ==
    /\ shape = Shape
    /\ contents \in MutateBoards
    /\ \E captor \in [Pieces -> Players] :
           jail = [player \in Players |->
                      {p \in Pieces : /\ \A k \in DOMAIN contents : contents[k] # p
                                      /\ captor[p] = player}]
    /\ loc = [p \in Pieces |->
                 IF \E k \in DOMAIN contents : contents[k] = p
                 THEN [board |-> RealBoard,
                       place |-> Some(CHOOSE c \in OnBoard :
                                         getitem(BoardTensor, contents, c) = p)]
                 ELSE [board |-> RealBoard, place |-> Nothing]]
    /\ calls = 0
    /\ last = NoCall
    /\ ray = NoRay

NextMove ==
    \/ Idle /\ \E origin \in MutationPoints, destination \in MutationPoints :
                   Move(origin, destination)
    \/ Idle /\ \E sequence \in OneMutation : Apply(sequence)
    \/ Discard

SpecMove == InitMove /\ [][NextMove]_vars

CellsOf(p) == {c \in OnBoard : Cell(c) = p}
CellsOfBefore(p) == {c \in OnBoard : CellBefore(c) = p}
InJailBefore(p) == \E player \in Players : p \in last.before.jail[player]
Present == {p \in Pieces : OnGrid(p) \/ InJail(p)}
PresentBefore == {p \in Pieces : OnGridBefore(p) \/ InJailBefore(p)}
\* every piece is in exactly one grid cell or in a jail
AllPlacedBefore ==
    \A p \in Pieces :
        /\ Cardinality(CellsOfBefore(p)) <= 1
        /\ OnGridBefore(p) \/ InJailBefore(p)
MovedFromOccupied ==
    /\ last.op = "direct_move"
    /\ last.key[1] \in OnBoard
    /\ CellBefore(last.key[1]) # None
    /\ AllPlacedBefore
Conserved ==
    /\ Present = PresentBefore
    /\ \A p \in Pieces : Cardinality(CellsOf(p)) <= 1
    /\ \A p \in Pieces : OnGridBefore(p) /\ ~OnGrid(p) => InJail(p)
\* C32 as claimed: when every piece is in exactly one grid cell or in a jail,
\* applying direct_move(board, origin, destination) with an occupied origin
\* leaves the set of pieces that are on the grid or in a jail unchanged,
\* whatever the destination.
DirectMoveConserves == MovedFromOccupied => Conserved
\* C32, amended: the same for a destination on the board (origin included):
\* the set of pieces on the grid or in a jail is unchanged, no piece is in two
\* cells, and a piece that left the grid is in a jail.
DirectMoveConservesOnBoard ==
    (MovedFromOccupied /\ last.destination[1] \in OnBoard) =>
        last.err = "ok" /\ Conserved
\* a move onto another piece on a board where every piece is on the grid or
\* in a jail: the victim went from the grid to a jail
DirectMoveConservesOnBoardWitness ==
    /\ MovedFromOccupied
    /\ last.destination[1] \in OnBoard \ {last.key[1]}
    /\ CellBefore(last.destination[1]) # None
    /\ ~InJailBefore(CellBefore(last.destination[1]))
    /\ InJail(CellBefore(last.destination[1]))
    /\ Present = Pieces

(* --------------------- mutations at an empty point --------------------- *)
\* C33: REMOVE or CAPTURE at an empty point of the board is a no-op: the
\* grid, every jail set and every back-reference are as before and no error
\* is raised, whatever the payload (None included).
EmptyPointNoOp ==
    (/\ Single(REMOVE) \/ Single(CAPTURE)
     /\ last.sequence[1].point \in OnBoard
     /\ CellBefore(last.sequence[1].point) = None) =>
        last.err = "ok" /\ Untouched
\* a CAPTURE without payload at the empty point of a board that holds a piece
\* in its other cell and a piece in a jail
EmptyPointNoOpWitness ==
    /\ Single(CAPTURE)
    /\ last.sequence[1].payload = None
    /\ last.sequence[1].point \in OnBoard
    /\ CellBefore(last.sequence[1].point) = None
    /\ last.err = "ok"
    /\ \E c \in OnBoard : Cell(c) # None
    /\ \E p \in Pieces : InJail(p)

(* --------------------------- safety of the ray ------------------------- *)
\* the points the ray has yielded are on the board, and an occupied one is
\* the last the ray yields: the ray is suspended at an empty cell only
YieldedOnBoardAndEmpty ==
    /\ \A i \in 1..Len(ray.yielded) : ray.yielded[i] \in PointsBelow(shape)
    /\ ray.last_yield # Nothing => ray.last_yield[1] \in PointsBelow(shape)
    /\ ray.pc = "yielded" => Cell(ray.last_yield[1]) = None
    /\ \A i \in 1..Len(ray.yielded) :
           Cell(ray.yielded[i]) # None =>
               /\ i = Len(ray.yielded) /\ ~ray.more
               /\ ray.pc \in {"captured", "done"}
               /\ ray.last_yield = Some(ray.yielded[i])
\* a step of the generator object leaves the board as it is
RayStepFrame ==
    ray' # ray => UNCHANGED <<shape, contents, jail, loc>>
\* C34: every coordinate yielded by get_repeated_points is on the board,
\* every yielded coordinate except possibly the last is an empty cell, and
\* the generator changes neither the grid nor a jail nor a back-reference,
\* for every step sequence, constant or not.
RaySafety == [](YieldedOnBoardAndEmpty) /\ [][RayStepFrame]_vars
\* a ray of steps that differ yielded empty cells and ended on a piece of
\* the other player, which it yielded
RaySafetyWitness ==
    /\ ray.pc = "done"
    /\ Len(ray.yielded) = 3
    /\ ray.yielded[3] # ray.yielded[2]
    /\ Cell(ray.yielded[1]) = None /\ Cell(ray.yielded[2]) = None
    /\ Cell(ray.yielded[3]) # None
    /\ ~ConstantStep
    /\ \E i \in DOMAIN ray.step_generator.list :
           ray.step_generator.list[i] # ray.step_generator.list[1]

====
